---- MODULE Spec2Model ----
(***************************************************************************)
(* Model of packages/prover/src/wasm.rs: the circom witness (.wtns) reader *)
(* load_witness_from_bin_reader / read_field and the two entry points      *)
(* prove and verify that assemble the backend's inputs.                    *)
(*                                                                         *)
(* A byte buffer is held as its leading bytes followed by a number of      *)
(* copies of one 32-byte block, so that a file of 2^27 entries (4 GiB) is  *)
(* a value of the model.  Integers read from a buffer are kept             *)
(* as their little-endian byte sequences (a u32 is 4 bytes, a u64 is 8     *)
(* bytes), so that 32-bit wrap-around and 64-bit comparisons are computed  *)
(* exactly.  A call ends in one of four ways: it returns Ok(value), it     *)
(* returns Err(e) (std::io::Error), it panics with a message, or the       *)
(* process aborts (a failed allocation).                                   *)
(***************************************************************************)
EXTENDS Integers, Sequences, FiniteSets, TLC

(***************************************************************************)
(* Bounds of the model.                                                    *)
(***************************************************************************)
\* largest number of witness elements physically present in a generated file
MaxWitnessLen == 2
\* largest declared public-input count of a generated circuit
MaxInputs == 2

(***************************************************************************)
(* Outcomes of a call.                                                     *)
(***************************************************************************)
Ok(v) == [kind |-> "ok", msg |-> "", value |-> v]
Err(m) == [kind |-> "err", msg |-> m, value |-> <<>>]
Panic(m) == [kind |-> "panic", msg |-> m, value |-> <<>>]
\* handle_alloc_error: the process aborts, the call has no return value
Abort(m) == [kind |-> "abort", msg |-> m, value |-> <<>>]

(***************************************************************************)
(* Little-endian byte arithmetic.                                          *)
(***************************************************************************)
RECURSIVE LE(_, _)
\* the w-byte little-endian encoding of n (n.to_le_bytes())
LE(n, w) == IF w = 0 THEN <<>> ELSE <<n % 256>> \o LE(n \div 256, w - 1)

RECURSIVE LtLE(_, _)
\* a < b for two little-endian byte sequences of the same length
LtLE(a, b) ==
  IF Len(a) = 0 THEN FALSE
  ELSE LET n == Len(a) IN
       IF a[n] # b[n] THEN a[n] < b[n]
       ELSE LtLE(SubSeq(a, 1, n - 1), SubSeq(b, 1, n - 1))

\* the k-th column sum (k = 0..6) of the schoolbook product of two u32
MulCol(a, b, k) ==
  LET T(i) == IF k + 2 - i >= 1 /\ k + 2 - i <= 4 THEN a[i] * b[k + 2 - i] ELSE 0
  IN T(1) + T(2) + T(3) + T(4)

RECURSIVE MulDigits(_, _, _, _)
MulDigits(a, b, k, carry) ==
  IF k = 8 THEN <<>>
  ELSE LET t == (IF k <= 6 THEN MulCol(a, b, k) ELSE 0) + carry
       IN <<t % 256>> \o MulDigits(a, b, k + 1, t \div 256)

\* the exact 64-bit product of two u32, as 8 little-endian bytes
MulFull(a, b) == MulDigits(a, b, 0, 0)

Zero4 == <<0, 0, 0, 0>>

\* u32 * u32 in Rust: the low 32 bits, and whether the product overflowed
wrapping_mul(a, b) == SubSeq(MulFull(a, b), 1, 4)
mul_overflows(a, b) == SubSeq(MulFull(a, b), 5, 8) # Zero4

\* (x: u32) as u64
as_u64(x) == x \o Zero4

(***************************************************************************)
(* Builds.  u32 multiplication panics on overflow when overflow checks are *)
(* on (debug profile) and wraps when they are off (release profile, the    *)
(* wasm artefact); usize is 32 bits on wasm32 and 64 bits natively.  The   *)
(* process runs with some amount of allocatable memory (alloc_limit, in    *)
(* bytes, as a u64), at least 2 GiB: 2 GiB, 16 GiB, or no limit below      *)
(* isize::MAX.                                                             *)
(***************************************************************************)
AllocLimits ==
  { <<0, 0, 0, 128, 0, 0, 0, 0>>, <<0, 0, 0, 0, 4, 0, 0, 0>>,
    <<255, 255, 255, 255, 255, 255, 255, 127>> }

Builds ==
  [overflow_checks : BOOLEAN, ptr_bits : {64}, alloc_limit : AllocLimits]
  \cup { [overflow_checks |-> FALSE, ptr_bits |-> 32,
          alloc_limit |-> <<0, 0, 0, 128, 0, 0, 0, 0>>] }

(***************************************************************************)
(* The field F1: the scalar field of secq256k1, of modulus                 *)
(* p = 2^256 - 2^32 - 977.  An element is held as 16 little-endian limbs   *)
(* of 16 bits; its canonical encoding (Repr) is 32 little-endian bytes.    *)
(***************************************************************************)
FieldBytes == 32
NumLimbs == FieldBytes \div 2

ModulusLimbs ==
  <<64559, 65535, 65534, 65535>> \o [i \in 1..12 |-> 65535]

\* limbs of a 32-byte little-endian representation
LimbsOf(repr) == [i \in 1..NumLimbs |-> repr[2 * i - 1] + 256 * repr[2 * i]]

RECURSIVE SbbChain(_, _, _, _)
\* the borrow out of limbs[i..] - m[i..] - borrow
SbbChain(limbs, m, i, borrow) ==
  IF i > Len(limbs) THEN borrow
  ELSE SbbChain(limbs, m, i + 1, IF limbs[i] - m[i] - borrow < 0 THEN 1 ELSE 0)

\* PrimeField::from_repr: Some(element) exactly when the value is below the
\* modulus (the subtraction of the modulus borrows); no reduction
from_repr(repr) ==
  LET limbs == LimbsOf(repr) IN
  IF SbbChain(limbs, ModulusLimbs, 1, 0) = 1
  THEN [is_some |-> TRUE, value |-> limbs]
  ELSE [is_some |-> FALSE, value |-> <<>>]

\* PrimeField::to_repr: the canonical little-endian bytes of an element
to_repr(fr) ==
  [i \in 1..FieldBytes |->
     IF i % 2 = 1 THEN fr[(i + 1) \div 2] % 256 ELSE fr[i \div 2] \div 256]

(***************************************************************************)
(* Byte buffers.  The buffer [head, fill, count] is the bytes of head      *)
(* followed by count copies of the 32-byte block fill; count is a u32.  A  *)
(* buffer given by its bytes alone has count zero and an empty fill.       *)
(***************************************************************************)
Buf(bytes) == [head |-> bytes, fill |-> <<>>, count |-> Zero4]

\* the number of copies of fill a buffer needs in order to hold n bytes
BlocksFor(b, n) ==
  IF n <= Len(b.head) THEN 0
  ELSE (n - Len(b.head) + FieldBytes - 1) \div FieldBytes

\* the buffer holds at least n bytes
HasBytes(b, n) == ~LtLE(b.count, LE(BlocksFor(b, n), 4))

\* the byte at offset o (from 0) of a buffer that holds it
ByteAt(b, o) ==
  IF o < Len(b.head) THEN b.head[o + 1]
  ELSE b.fill[((o - Len(b.head)) % FieldBytes) + 1]

\* the n bytes at offset off of a buffer that holds them
Slice(b, off, n) == [i \in 1..n |-> ByteAt(b, off + i - 1)]

(***************************************************************************)
(* The reader: a byte slice b and the number pos of bytes consumed.        *)
(***************************************************************************)
\* Read::read_exact / ReadBytesExt::read_u32, read_u64 on a slice
read_exact(b, pos, n) ==
  IF ~HasBytes(b, pos + n) THEN Err("UnexpectedEof")
  ELSE Ok(Slice(b, pos, n))

read_u32(b, pos) == read_exact(b, pos, 4)
read_u64(b, pos) == read_exact(b, pos, 8)

\* read_field: 32 single-byte reads into the Repr, then from_repr(..).unwrap()
read_field(b, pos) ==
  LET r == read_exact(b, pos, FieldBytes) IN
  IF r.kind # "ok" THEN r
  ELSE LET fr == from_repr(r.value) IN
       IF fr.is_some THEN Ok(fr.value)
       ELSE Panic("CtOption::unwrap on None")

(***************************************************************************)
(* load_witness_from_bin_reader                                            *)
(***************************************************************************)
Magic == <<119, 116, 110, 115>>

\* the conditions of the format checks
InvalidHeader(wtns_header) == wtns_header # Magic
UnsupportedVersion(version) == LtLE(LE(2, 4), version)
\* a section-count check that only rejects counts above 2
InvalidNumSections_above(num_sections) == LtLE(LE(2, 4), num_sections)
InvalidNumSections(num_sections) == num_sections # LE(2, 4)
InvalidSection1Type(sec_type) == sec_type # LE(1, 4)
InvalidSection1Size(sec_size) == sec_size # LE(4 + 32 + 4, 8)
InvalidFieldSize(field_size) == field_size # LE(32, 4)
InvalidSection2Type(sec_type) == sec_type # LE(2, 4)
InvalidSection2Size(sec_size, witness_len, field_size) ==
  sec_size # as_u64(wrapping_mul(witness_len, field_size))

\* Vec::with_capacity(witness_len as usize) of 32-byte elements panics when
\* the byte size exceeds isize::MAX
CapacityOverflow(witness_len, bld) ==
  /\ bld.ptr_bits = 32
  /\ ~LtLE(MulFull(witness_len, LE(FieldBytes, 4)), <<0, 0, 0, 128, 0, 0, 0, 0>>)

\* Vec::with_capacity(witness_len as usize) aborts the process when the
\* allocation of witness_len * 32 bytes fails
AllocFails(witness_len, bld) ==
  LtLE(bld.alloc_limit, MulFull(witness_len, LE(FieldBytes, 4)))

RECURSIVE ReadFields_partial(_, _, _, _, _)
\* a read loop that returns the elements read so far when the input ends
ReadFields_partial(b, pos, i, witness_len, result) ==
  IF ~LtLE(LE(i, 4), witness_len) THEN Ok(result)
  ELSE LET r == read_field(b, pos) IN
       IF r.kind = "err" THEN Ok(result)
       ELSE IF r.kind # "ok" THEN r
       ELSE ReadFields_partial(b, pos + FieldBytes, i + 1, witness_len,
                               Append(result, r.value))

RECURSIVE ReadFields(_, _, _, _, _)
\* for _ in 0..witness_len { result.push(read_field(&mut reader)?) }; Ok(result)
ReadFields(b, pos, i, witness_len, result) ==
  IF ~LtLE(LE(i, 4), witness_len) THEN Ok(result)
  ELSE LET r == read_field(b, pos) IN
       IF r.kind # "ok" THEN r
       ELSE ReadFields(b, pos + FieldBytes, i + 1, witness_len,
                       Append(result, r.value))

\* the second section: from the read of witness_len at offset 60 on
ReadSection2(b, field_size, bld) ==
  LET r_len == read_u32(b, 60) IN
  IF r_len.kind # "ok" THEN r_len ELSE
  LET witness_len == r_len.value
      r_type == read_u32(b, 64)
  IN
  IF r_type.kind # "ok" THEN r_type ELSE
  IF InvalidSection2Type(r_type.value) THEN Panic("invalid section type") ELSE
  LET r_size == read_u64(b, 68) IN
  IF r_size.kind # "ok" THEN r_size ELSE
  IF bld.overflow_checks /\ mul_overflows(witness_len, field_size)
  THEN Panic("attempt to multiply with overflow") ELSE
  IF InvalidSection2Size(r_size.value, witness_len, field_size)
  THEN Panic("invalid witness section size") ELSE
  IF CapacityOverflow(witness_len, bld) THEN Panic("capacity overflow") ELSE
  IF AllocFails(witness_len, bld) THEN Abort("memory allocation failed") ELSE
  ReadFields(b, 76, 0, witness_len, <<>>)

\* the first section: from the read of its type tag at offset 12 on
ReadSection1(b, bld) ==
  LET r_type == read_u32(b, 12) IN
  IF r_type.kind # "ok" THEN r_type ELSE
  IF InvalidSection1Type(r_type.value) THEN Panic("invalid section type") ELSE
  LET r_size == read_u64(b, 16) IN
  IF r_size.kind # "ok" THEN r_size ELSE
  IF InvalidSection1Size(r_size.value) THEN Panic("invalid section len") ELSE
  LET r_fs == read_u32(b, 24) IN
  IF r_fs.kind # "ok" THEN r_fs ELSE
  IF InvalidFieldSize(r_fs.value) THEN Panic("invalid field byte size") ELSE
  LET r_prime == read_exact(b, 28, 32) IN
  IF r_prime.kind # "ok" THEN r_prime ELSE
  ReadSection2(b, r_fs.value, bld)

load_witness_from_bin_reader(b, bld) ==
  LET r_hdr == read_exact(b, 0, 4) IN
  IF r_hdr.kind # "ok" THEN r_hdr ELSE
  IF InvalidHeader(r_hdr.value) THEN Panic("invalid file header") ELSE
  LET r_ver == read_u32(b, 4) IN
  IF r_ver.kind # "ok" THEN r_ver ELSE
  IF UnsupportedVersion(r_ver.value) THEN Panic("unsupported file version") ELSE
  LET r_ns == read_u32(b, 8) IN
  IF r_ns.kind # "ok" THEN r_ns ELSE
  IF InvalidNumSections(r_ns.value) THEN Panic("invalid num sections") ELSE
  ReadSection1(b, bld)

(***************************************************************************)
(* Inputs.  A witness file is generated from a descriptor: the fields of   *)
(* the layout, the elements physically present, a truncation length, and   *)
(* the block repeated after them with its number of copies.  The generated *)
(* set holds every well-formed file over the representations below, every  *)
(* file that departs from a well-formed one in at most two places, and the *)
(* well-formed files of 2 and of 2^27 copies of a canonical one.           *)
(***************************************************************************)
ReprOne == [i \in 1..FieldBytes |-> IF i = 1 THEN 1 ELSE 0]
\* p - 1, the largest canonical representation
ReprPm1 == to_repr([ModulusLimbs EXCEPT ![1] = @ - 1])
\* p itself, the smallest non-canonical representation
ReprP == to_repr(ModulusLimbs)

Reprs == {ReprOne, ReprPm1, ReprP}

ReprSeqs(S, n) == UNION {[1..k -> S] : k \in 0..n}

RECURSIVE Flatten(_)
Flatten(ss) == IF Len(ss) = 0 THEN <<>> ELSE Head(ss) \o Flatten(Tail(ss))

NoCut == 0 - 1

\* the descriptor of the well-formed file of the given version and elements
BaseDesc(version, elems) ==
  [magic |-> Magic, version |-> LE(version, 4), nsec |-> LE(2, 4),
   s1type |-> LE(1, 4), s1size |-> LE(40, 8), fsize |-> LE(32, 4),
   prime |-> ReprP, wl |-> LE(Len(elems), 4), s2type |-> LE(2, 4),
   s2size |-> <<>>, elems |-> elems, cut |-> NoCut,
   fill |-> <<>>, count |-> Zero4]

\* the buffer a descriptor stands for; an empty s2size stands for the exact
\* (64-bit) product of the declared count and the field width
FileOf(d) ==
  LET s2 == IF d.s2size = <<>> THEN MulFull(d.wl, LE(FieldBytes, 4))
            ELSE d.s2size
      all == d.magic \o d.version \o d.nsec \o d.s1type \o d.s1size
             \o d.fsize \o d.prime \o d.wl \o d.s2type \o s2
             \o Flatten(d.elems)
  IN [head |-> IF d.cut >= 0 /\ d.cut < Len(all) THEN SubSeq(all, 1, d.cut)
               ELSE all,
      fill |-> d.fill, count |-> d.count]

\* the places a generated file can depart from a well-formed one
BigLen == <<0, 0, 0, 8>>
HugeLen == <<0, 0, 0, 128>>
MaxLen == <<255, 255, 255, 255>>
CutPoints == {0, 3, 7, 11, 12, 15, 23, 27, 59, 63, 67, 75, 76, 107, 113}
Faults ==
  {<<"cut", NoCut>>, <<"magic", <<119, 116, 110, 120>>>>,
   <<"magic", <<0, 116, 110, 115>>>>,
   <<"version", LE(0, 4)>>, <<"version", LE(3, 4)>>,
   <<"version", LE(256, 4)>>,
   <<"nsec", LE(1, 4)>>, <<"nsec", LE(3, 4)>>, <<"nsec", LE(258, 4)>>,
   <<"s1type", LE(2, 4)>>, <<"s1size", LE(41, 8)>>, <<"fsize", LE(31, 4)>>,
   <<"prime", ReprOne>>, <<"s2type", LE(1, 4)>>,
   <<"s2size", LE(0, 8)>>, <<"s2size", LE(32, 8)>>, <<"s2size", LE(33, 8)>>,
   <<"s2size", <<224, 255, 255, 255, 0, 0, 0, 0>>>>,
   <<"wl", BigLen>>, <<"wl", HugeLen>>, <<"wl", MaxLen>>}
  \cup {<<"wl", LE(n, 4)>> : n \in 0..(MaxWitnessLen + 1)}
  \cup {<<"cut", k>> : k \in CutPoints}

WithFault(d, f) == [d EXCEPT ![f[1]] = f[2]]

Descriptors ==
  {WithFault(WithFault(BaseDesc(v, es), f1), f2) :
     v \in {1, 2}, es \in ReprSeqs(Reprs, MaxWitnessLen),
     f1 \in Faults, f2 \in Faults}

\* the descriptor of the well-formed file of n copies of one representation
RunDesc(version, repr, n) ==
  [BaseDesc(version, <<>>) EXCEPT !.wl = n, !.fill = repr, !.count = n]

RunLens == {LE(2, 4), BigLen}

WitnessFiles ==
  {FileOf(d) : d \in Descriptors}
  \cup {FileOf(RunDesc(v, r, n)) :
          v \in {1, 2}, r \in {ReprOne, ReprPm1}, n \in RunLens}

(***************************************************************************)
(* The proof backend (libspartan) and bincode.  A bincode buffer is kept   *)
(* abstract: it is the encoding of an object of some type, or garbage.     *)
(***************************************************************************)
bincode_serialize(type, obj) == [type |-> type, obj |-> obj]
Garbage == [type |-> "garbage", obj |-> <<>>]

bincode_deserialize(type, bytes) ==
  IF bytes.type = type THEN Ok(bytes.obj) ELSE Err("bincode")

\* Assignment::new: one entry per 32-byte array, in order
Assignment_new(entries) == Ok(entries)

\* NIZKGens::new: determined by the three dimensions alone
NIZKGens_new(num_cons, num_vars, num_inputs) ==
  [num_cons |-> num_cons, num_vars |-> num_vars, num_inputs |-> num_inputs]

\* the instances checked: constraint i states that variable i equals public
\* input i
Instances ==
  {[num_cons |-> n, num_vars |-> MaxWitnessLen, num_inputs |-> n] :
     n \in 0..MaxInputs}

is_sat(inst, assignment, input) ==
  /\ Len(assignment) = inst.num_vars
  /\ \A i \in 1..inst.num_cons :
       i <= Len(assignment) /\ i <= Len(input) /\ assignment[i] = input[i]

\* NIZK::prove: the proof binds the statement it was produced for
NIZK_prove(inst, assignment, input, gens, label) ==
  [inst |-> inst, input |-> input, gens |-> gens, label |-> label,
   sat |-> is_sat(inst, assignment, input)]

\* NIZK::verify(..).is_ok(): accepts a proof of a satisfied statement, for
\* the very statement, parameters and transcript label it was produced with
NIZK_verify_is_ok(proof, inst, input, label, gens) ==
  proof = [inst |-> inst, input |-> input, gens |-> gens, label |-> label,
           sat |-> TRUE]

(***************************************************************************)
(* prove and verify                                                        *)
(***************************************************************************)
TranscriptLabel == "nizk_example"

\* .unwrap() of a Result
unwrap(r) ==
  IF r.kind = "err" THEN Panic("called Result::unwrap() on an Err value")
  ELSE r

\* let mut input = [[0u8; 32]];
InputArray == <<[i \in 1..FieldBytes |-> 0]>>

RECURSIVE FillInputs(_, _, _, _)
\* for i in 0..num_inputs {
\*   input[i] = public_inputs[(i * 32)..((i + 1) * 32)].try_into().unwrap(); }
\* the slice on the right is taken before the array on the left is indexed
FillInputs(public_inputs, num_inputs, i, input) ==
  IF i >= num_inputs THEN Ok(input)
  ELSE IF (i + 1) * 32 > Len(public_inputs)
       THEN Panic("range end index out of range for slice")
  ELSE IF i + 1 > Len(input) THEN Panic("index out of bounds")
  ELSE FillInputs(public_inputs, num_inputs, i + 1,
                  [input EXCEPT ![i + 1] =
                     SubSeq(public_inputs, i * 32 + 1, (i + 1) * 32)])

\* the public assignment built from the buffer, for both entry points
PublicAssignment(public_inputs, num_inputs) ==
  LET filled == FillInputs(public_inputs, num_inputs, 0, InputArray) IN
  IF filled.kind # "ok" THEN filled ELSE unwrap(Assignment_new(filled.value))

\* prove, up to the call of the backend: what NIZK::prove is handed
ProveArgs(circuit, witness, public_inputs, bld) ==
  LET w == unwrap(load_witness_from_bin_reader(witness, bld)) IN
  IF w.kind # "ok" THEN w ELSE
  LET witness_bytes == [i \in 1..Len(w.value) |-> to_repr(w.value[i])]
      assignment == unwrap(Assignment_new(witness_bytes))
  IN
  IF assignment.kind # "ok" THEN assignment ELSE
  LET c == unwrap(bincode_deserialize("Instance", circuit)) IN
  IF c.kind # "ok" THEN c ELSE
  LET inst == c.value
      gens == NIZKGens_new(inst.num_cons, inst.num_vars, inst.num_inputs)
      input == PublicAssignment(public_inputs, inst.num_inputs)
  IN
  IF input.kind # "ok" THEN input ELSE
  Ok([inst |-> inst, assignment |-> assignment.value, input |-> input.value,
      gens |-> gens, label |-> TranscriptLabel])

prove(circuit, witness, public_inputs, bld) ==
  LET a == ProveArgs(circuit, witness, public_inputs, bld) IN
  IF a.kind # "ok" THEN a ELSE
  Ok(bincode_serialize("NIZK",
       NIZK_prove(a.value.inst, a.value.assignment, a.value.input,
                  a.value.gens, a.value.label)))

\* verify, up to the call of the backend: what NIZK::verify is handed
VerifyArgs(circuit, proof, public_input) ==
  LET c == unwrap(bincode_deserialize("Instance", circuit)) IN
  IF c.kind # "ok" THEN c ELSE
  LET p == unwrap(bincode_deserialize("NIZK", proof)) IN
  IF p.kind # "ok" THEN p ELSE
  LET inst == c.value
      gens == NIZKGens_new(inst.num_cons, inst.num_vars, inst.num_inputs)
      inputs == PublicAssignment(public_input, inst.num_inputs)
  IN
  IF inputs.kind # "ok" THEN inputs ELSE
  Ok([inst |-> inst, proof |-> p.value, input |-> inputs.value,
      gens |-> gens, label |-> TranscriptLabel])

verify(circuit, proof, public_input) ==
  LET a == VerifyArgs(circuit, proof, public_input) IN
  IF a.kind # "ok" THEN a ELSE
  Ok(NIZK_verify_is_ok(a.value.proof, a.value.inst, a.value.input,
                       a.value.label, a.value.gens))

(***************************************************************************)
(* Inputs of prove and verify.                                             *)
(***************************************************************************)
Circuits == {Garbage} \cup {bincode_serialize("Instance", c) : c \in Instances}

ProveFaults ==
  {<<"cut", NoCut>>, <<"cut", 75>>, <<"magic", <<119, 116, 110, 120>>>>}

ProveFiles ==
  {FileOf(WithFault(BaseDesc(2, es), f)) :
     es \in ReprSeqs(Reprs, MaxWitnessLen), f \in ProveFaults}

\* whole chunks, one byte short of whole chunks, and one byte more
PublicBuffers ==
  LET whole == {Flatten(cs) : cs \in ReprSeqs({ReprOne, ReprPm1}, MaxInputs)}
  IN whole \cup {SubSeq(b, 1, Len(b) - 1) : b \in whole \ {<<>>}}
           \cup {b \o <<7>> : b \in whole}

\* the buffers a verify call is tried with: the buffer of the preceding
\* prove call, and the generated buffers of at most one chunk and a byte
VerifyBuffers(proved_with) ==
  {proved_with} \cup {b \in PublicBuffers : Len(b) <= FieldBytes + 1}

(***************************************************************************)
(* State: the call made (operation and argument buffers), its outcome, and *)
(* the arguments the backend was handed during the call, if it was called. *)
(* A verify call that follows a prove call records the arguments the proof *)
(* was produced with.                                                      *)
(***************************************************************************)
VARIABLES call, ret, handed

vars == <<call, ret, handed>>

NoOrigin ==
  [circuit |-> Garbage, witness |-> Buf(<<>>), public_inputs |-> <<>>]

NoCall ==
  [op |-> "none", circuit |-> Garbage, witness |-> Buf(<<>>),
   proof |-> Garbage,
   public_inputs |-> <<>>, proved_with |-> NoOrigin]

NotHanded == [called |-> FALSE]

Handed(a) ==
  IF a.kind = "ok"
  THEN [called |-> TRUE, inst |-> a.value.inst, input |-> a.value.input,
        gens |-> a.value.gens, label |-> a.value.label]
  ELSE NotHanded

Init ==
  /\ call = NoCall
  /\ ret = [kind |-> "none", msg |-> "", value |-> <<>>]
  /\ handed = NotHanded

\* a caller passes a buffer to load_witness_from_bin_reader
LoadCall ==
  /\ call.op = "none"
  /\ \E b \in WitnessFiles, bld \in Builds :
       /\ call' = [NoCall EXCEPT !.op = "load", !.witness = b]
       /\ ret' = load_witness_from_bin_reader(b, bld)
  /\ handed' = NotHanded

\* a caller calls prove
ProveCall ==
  /\ call.op = "none"
  /\ \E c \in Circuits, w \in ProveFiles, pub \in PublicBuffers,
        bld \in Builds :
       /\ call' = [NoCall EXCEPT !.op = "prove", !.circuit = c,
                                 !.witness = w, !.public_inputs = pub]
       /\ ret' = prove(c, w, pub, bld)
       /\ handed' = Handed(ProveArgs(c, w, pub, bld))

\* a caller calls verify, with a buffer of its own as the proof or with the
\* proof the preceding prove call returned
VerifyCall ==
  /\ \/ call.op = "none"
     \/ call.op = "prove" /\ ret.kind = "ok"
  /\ \E c \in Circuits, pub \in VerifyBuffers(call.public_inputs) :
       LET p == IF call.op = "prove" THEN ret.value ELSE Garbage
           origin == IF call.op = "prove"
                     THEN [circuit |-> call.circuit, witness |-> call.witness,
                           public_inputs |-> call.public_inputs]
                     ELSE NoOrigin
       IN /\ call' = [NoCall EXCEPT !.op = "verify", !.circuit = c,
                                    !.proof = p, !.public_inputs = pub,
                                    !.proved_with = origin]
          /\ ret' = verify(c, p, pub)
          /\ handed' = Handed(VerifyArgs(c, p, pub))

Next == LoadCall \/ ProveCall \/ VerifyCall

Spec == Init /\ [][Next]_vars

(***************************************************************************)
(* Vocabulary of the properties.                                           *)
(***************************************************************************)
\* the n bytes of witness buffer b at offset off
Field(b, off, n) == Slice(b, off, n)

\* the witness buffer is exactly n bytes long
HasLength(b, n) == HasBytes(b, n) /\ ~HasBytes(b, n + 1)

RECURSIVE AddLE(_, _)
\* a + k for little-endian bytes a and a small natural k
AddLE(a, k) ==
  IF Len(a) = 0 THEN <<>>
  ELSE <<(a[1] + k) % 256>> \o AddLE(Tail(a), (a[1] + k) \div 256)

\* the failure a call ended with, under the name the error taxonomy gives it
FailureOf(r) ==
  CASE r.kind = "ok" -> "none"
    [] r.msg = "invalid file header" -> "MalformedHeader"
    [] r.msg = "unsupported file version" -> "UnsupportedVersion"
    [] r.msg = "invalid num sections" -> "InvalidSectionCount"
    [] r.msg = "invalid section type" -> "InvalidSectionType"
    [] r.msg \in {"invalid section len", "invalid witness section size"} ->
         "InvalidSectionSize"
    [] OTHER -> r.msg

\* the field elements of the generated representations
FrCanon == {from_repr(r).value : r \in {x \in Reprs : from_repr(x).is_some}}

\* the witness file layout for a sequence of field elements
EncodeWitness(version, elems) ==
  FileOf(BaseDesc(version, [i \in 1..Len(elems) |-> to_repr(elems[i])]))

\* the witness file layout for the sequence of n copies of element e, n a u32
EncodeRun(version, e, n) == FileOf(RunDesc(version, to_repr(e), n))

\* the buffer has a valid magic and a supported version
HeaderAccepted(b) ==
  /\ HasBytes(b, 8)
  /\ Field(b, 0, 4) = Magic
  /\ ~LtLE(LE(2, 4), Field(b, 4, 4))

\* the buffer holds the whole fixed part of the layout (76 bytes) and every
\* field of it before section2_size has the value the layout requires
FixedPartAccepted(b) ==
  /\ HasBytes(b, 76)
  /\ HeaderAccepted(b)
  /\ Field(b, 8, 4) = LE(2, 4)
  /\ Field(b, 12, 4) = LE(1, 4)
  /\ Field(b, 16, 8) = LE(40, 8)
  /\ Field(b, 24, 4) = LE(32, 4)
  /\ Field(b, 64, 4) = LE(2, 4)

\* the product witness_len * 32 of the buffer, without wrap-around
ExactSection2Size(b) == MulFull(Field(b, 60, 4), LE(32, 4))

\* the number of whole 32-byte entries after offset 76 that begin in the
\* leading bytes of the buffer; the entries after the next one are all the
\* same 32 bytes
HeadEntries(b) ==
  IF Len(b.head) < 76 THEN 0 ELSE (Len(b.head) - 76) \div 32

\* the input ends before 76 + 32 * witness_len bytes: the whole entries
\* present after offset 76 are fewer than witness_len
EndsShort(b) ==
  \/ ~HasBytes(b, 76)
  \/ IF Len(b.head) >= 76
     THEN LtLE(AddLE(as_u64(b.count), HeadEntries(b)),
               as_u64(Field(b, 60, 4)))
     ELSE LtLE(as_u64(b.count),
               AddLE(as_u64(Field(b, 60, 4)), BlocksFor(b, 76)))

\* the general chunking rule: n consecutive 32-byte chunks of the buffer
Chunks(buf, n) == [i \in 1..n |-> SubSeq(buf, 32 * (i - 1) + 1, 32 * i)]

\* the call's circuit buffer decodes, and so does its witness file (prove)
\* or its proof buffer (verify)
OtherInputsDecode ==
  /\ call.circuit.type = "Instance"
  /\ call.op = "prove" =>
       \E es \in ReprSeqs(FrCanon, MaxWitnessLen) :
         /\ Len(call.witness.head) = 76 + 32 * Len(es)
         /\ call.witness = EncodeWitness(2, es)
  /\ call.op = "verify" => call.proof.type = "NIZK"

(***************************************************************************)
(* Properties.                                                             *)
(***************************************************************************)
\* the circuit decodes to an instance, the witness file is the layout of
\* canonical elements that satisfy it together with the first num_inputs
\* chunks of the public-input buffer
HonestInputs(circuit, witness, public_inputs) ==
  /\ circuit.type = "Instance"
  /\ Len(public_inputs) >= 32 * circuit.obj.num_inputs
  /\ \E es \in ReprSeqs(FrCanon, MaxWitnessLen) :
       /\ Len(witness.head) = 76 + 32 * Len(es)
       /\ witness = EncodeWitness(2, es)
       /\ is_sat(circuit.obj, [i \in 1..Len(es) |-> to_repr(es[i])],
                 Chunks(public_inputs, circuit.obj.num_inputs))

\* C1: for every valid circuit instance, every well-formed witness file
\* whose elements satisfy the circuit and every public-input buffer matching
\* that witness, prove returns a proof, and verify of that proof with the
\* same circuit and the same public-input buffer returns true.
C1_ProveVerifyAgreement ==
  /\ ( /\ call.op = "prove"
       /\ HonestInputs(call.circuit, call.witness, call.public_inputs) )
     => ret.kind = "ok"
  /\ ( /\ call.op = "verify"
       /\ call.proved_with.circuit = call.circuit
       /\ call.proved_with.public_inputs = call.public_inputs
       /\ HonestInputs(call.circuit, call.proved_with.witness,
                       call.public_inputs) )
     => ret = Ok(TRUE)

\* C2: a sequence of N canonical field elements encoded in the witness file
\* layout (version <= 2) is parsed back to exactly those N elements, in the
\* same order, for every N: for the sequences of up to MaxWitnessLen
\* elements, and for the sequences of 2 and of 2^27 copies of one element.
C2_RoundTrip ==
  call.op = "load" =>
    /\ \A v \in 0..2, es \in ReprSeqs(FrCanon, MaxWitnessLen) :
         ( /\ Len(call.witness.head) = 76 + 32 * Len(es)
           /\ call.witness = EncodeWitness(v, es) )
         => ret = Ok(es)
    /\ \A v \in 0..2, e \in FrCanon, n \in RunLens :
         call.witness = EncodeRun(v, e, n)
         => /\ ret.kind = "ok"
            /\ LE(Len(ret.value), 4) = n
            /\ \A i \in 1..Len(ret.value) : ret.value[i] = e

\* C3: a buffer whose first 4 bytes are not the magic yields the error value
\* MalformedHeader, and a buffer with the magic and a version above 2 yields
\* the error value UnsupportedVersion; the error is returned to the caller
\* and carries no witness elements.
C3_HeaderRejection ==
  call.op = "load" =>
    /\ (HasBytes(call.witness, 4) /\ Field(call.witness, 0, 4) # Magic)
         => ret = Err("MalformedHeader")
    /\ ( /\ HasBytes(call.witness, 8)
         /\ Field(call.witness, 0, 4) = Magic
         /\ LtLE(LE(2, 4), Field(call.witness, 4, 4)) )
         => ret = Err("UnsupportedVersion")

\* C4: a buffer with a valid magic and version whose section count is not 2
\* fails with InvalidSectionCount and yields no elements, whatever follows
\* the section count.
C4_SectionCountRejection ==
  ( /\ call.op = "load"
    /\ HasBytes(call.witness, 12)
    /\ HeaderAccepted(call.witness)
    /\ Field(call.witness, 8, 4) # LE(2, 4) )
  => (FailureOf(ret) = "InvalidSectionCount" /\ ret.value = <<>>)

C4_Witness ==
  /\ call.op = "load"
  /\ HasLength(call.witness, 12)
  /\ HeaderAccepted(call.witness)
  /\ Field(call.witness, 8, 4) = LE(3, 4)
  /\ FailureOf(ret) = "InvalidSectionCount"

\* C5: when section2_size differs from the product witness_len * 32 taken
\* without wrap-around, parsing fails with InvalidSectionSize.
C5_SizeConsistency ==
  ( /\ call.op = "load"
    /\ FixedPartAccepted(call.witness)
    /\ Field(call.witness, 68, 8) # ExactSection2Size(call.witness) )
  => FailureOf(ret) = "InvalidSectionSize"

\* C6: in prove and verify, a public-input buffer shorter than
\* num_inputs * 32 bytes yields the error value TruncatedPublicInput (the
\* call does not abort).
C6_TruncatedPublicInput ==
  ( /\ call.op \in {"prove", "verify"}
    /\ OtherInputsDecode
    /\ Len(call.public_inputs) < 32 * call.circuit.obj.num_inputs )
  => ret = Err("TruncatedPublicInput")

\* C7: when the circuit and the proof deserialize and the public-input
\* buffer is long enough, verify returns a boolean, the backend's verdict;
\* when the circuit or the proof is malformed, verify fails and returns no
\* boolean.
C7_VerifyOutcomeSplit ==
  call.op = "verify" =>
    /\ ( /\ OtherInputsDecode
         /\ Len(call.public_inputs) >= 32 * call.circuit.obj.num_inputs )
       => (ret.kind = "ok" /\ ret.value \in BOOLEAN)
    /\ (call.circuit.type # "Instance" \/ call.proof.type # "NIZK")
       => ret.kind # "ok"

\* C8: a successful parse returns exactly witness_len elements, element i
\* decoded from bytes [76 + 32*i, 76 + 32*i + 32); an input that ends before
\* 76 + 32 * witness_len bytes fails and returns no elements.
C8_ExactCountOrNothing ==
  call.op = "load" =>
    /\ ret.kind = "ok" =>
         /\ HasBytes(call.witness, 76)
         /\ LE(Len(ret.value), 4) = Field(call.witness, 60, 4)
         /\ \A i \in 1..Len(ret.value) :
              ret.value[i] =
                from_repr(Field(call.witness, 76 + 32 * (i - 1), 32)).value
    /\ EndsShort(call.witness) => (ret.kind # "ok" /\ ret.value = <<>>)

C8_Witness ==
  /\ call.op = "load"
  /\ FixedPartAccepted(call.witness)
  /\ Field(call.witness, 60, 4) = LE(2, 4)
  /\ HasLength(call.witness, 113)
  /\ ret = Err("UnexpectedEof")

\* C9: in prove and verify, for a buffer of at least num_inputs * 32 bytes,
\* the public assignment handed to the backend has exactly num_inputs
\* entries, entry i being bytes [32*i, 32*i + 32) of the buffer.
C9_PublicAssignmentChunking ==
  ( /\ call.op \in {"prove", "verify"}
    /\ OtherInputsDecode
    /\ Len(call.public_inputs) >= 32 * call.circuit.obj.num_inputs )
  => /\ handed.called
     /\ handed.input = Chunks(call.public_inputs, call.circuit.obj.num_inputs)

\* C10: every element returned re-encodes to the 32 bytes it was read from;
\* a file whose entries are all present and one of which is not a canonical
\* encoding fails with an error value returned to the caller.
C10_CanonicalDecoding ==
  call.op = "load" =>
    /\ ret.kind = "ok" =>
         \A i \in 1..Len(ret.value) :
           to_repr(ret.value[i]) = Field(call.witness, 76 + 32 * (i - 1), 32)
    /\ ( /\ FixedPartAccepted(call.witness)
         /\ Field(call.witness, 68, 8) = ExactSection2Size(call.witness)
         /\ ~EndsShort(call.witness)
         /\ \E i \in 1..(HeadEntries(call.witness) + 2) :
              /\ HasBytes(call.witness, 76 + 32 * i)
              /\ LtLE(LE(i - 1, 4), Field(call.witness, 60, 4))
              /\ ~from_repr(Field(call.witness, 76 + 32 * (i - 1), 32)).is_some )
       => (ret.kind = "err" /\ ret.value = <<>>)

====
